---------------------------- MODULE Spec2Model ----------------------------
(***************************************************************************)
(* frost-cli: key generation (src/src/keygen.rs), threshold signing        *)
(* (src/src/sign.rs) and signature validation (src/src/verify.rs), with    *)
(* the frost_dalek operations they call.                                   *)
(*                                                                         *)
(* The Ristretto group is modelled by a group of prime order Q: a point    *)
(* x*G is represented by x, point addition by addition mod Q and scalar    *)
(* multiplication by multiplication mod Q, so every group equation the     *)
(* code checks is checked exactly.  Hashes are fixed functions; the        *)
(* message digest is injective.  The operating system's random source is   *)
(* a stream fixed by a seed chosen at start; a draw is identified by its   *)
(* position in the stream.                                                 *)
(***************************************************************************)
EXTENDS Integers, Sequences, FiniteSets, TLC

(* ------------------------------ bounds -------------------------------- *)
MaxN == 3
MaxSeed == 1
MaxCount == 3
MaxExtra == 2

(* -------------------------- program constants ------------------------- *)
KeyLen == 32
SigLen == 64
ByteBase == 256
ShareListLen == 1
ShareIndex == 0
SigningContext == "THRESHOLD SIGNATURE CONTEXT"
SignContext == "THRESHOLD SIGNING CONTEXT"
OtherContext == "THRESHOLD VERIFYING CONTEXT"
VerifyContext == "THRESHOLD SIGNING CONTEXT"

Msgs == <<"hi, this is a test", "different message">>
Messages == {Msgs[k] : k \in 1..Len(Msgs)}

NoFile == [exists |-> FALSE]

(* ------------------------------ the field ----------------------------- *)
IsPrime(p) == p > 1 /\ \A d \in 2..(p - 1) : p % d # 0

\* Scalars and group elements: the smallest prime field in which every
\* participant index 1..MaxN is a distinct non-zero element and every
\* message digest of the model has its own challenge offset.
FieldNeed == IF MaxN + 4 > Len(Msgs) + 1 THEN MaxN + 4 ELSE Len(Msgs) + 1

Q == CHOOSE p \in FieldNeed..(2 * FieldNeed) :
        IsPrime(p) /\ \A r \in FieldNeed..(p - 1) : ~IsPrime(r)

Scalars == 0..(Q - 1)

Add(a, b) == (a + b) % Q
Sub(a, b) == (a - b) % Q
Mul(a, b) == (a * b) % Q
Invert(a) == CHOOSE y \in Scalars : (a * y) % Q = 1
BasepointMul(x) == x % Q

RECURSIVE SumSeq(_)
SumSeq(s) == IF s = <<>> THEN 0 ELSE Add(s[1], SumSeq(Tail(s)))

(* ------------------------- the random source -------------------------- *)
\* The k-th scalar of the stream of seed `seed`.
Rand(seed, k) == ((seed + 2) * (k + 1) * (k + 3) + seed * k + 1) % Q

(* ------------------------------ encodings ----------------------------- *)
RECURSIVE ByteAt(_, _)
ByteAt(x, i) == IF i = 1 THEN x % ByteBase ELSE ByteAt(x \div ByteBase, i - 1)

\* to_bytes, with the bytes in the opposite order.
to_bytes_be(x) == [i \in 1..KeyLen |-> ByteAt(x, KeyLen + 1 - i)]

\* Scalar::to_bytes, CompressedRistretto::to_bytes: 32 bytes, little endian.
to_bytes(x) == [i \in 1..KeyLen |-> ByteAt(x, i)]

\* Scalar::from_canonical_bytes, CompressedRistretto::decompress: the value,
\* or an error when the bytes are not the encoding of a field element.
from_bytes(b) ==
    IF Len(b) # KeyLen \/ \E i \in 3..KeyLen : b[i] # 0
    THEN [ok |-> FALSE]
    ELSE LET v == b[1] + ByteBase * b[2]
         IN IF v < Q THEN [ok |-> TRUE, val |-> v] ELSE [ok |-> FALSE]

(* ------------------------------- hashes ------------------------------- *)
MsgCode(m) == CHOOSE k \in 1..Len(Msgs) : Msgs[k] = m

\* compute_message_hash, with a digest that does not cover the message.
compute_message_hash_of_context(context, message) == <<context, Msgs[1]>>

\* compute_message_hash(context, message): the digest of the pair.
compute_message_hash(context, message) == <<context, message>>

DigestCode(mh) == IF mh[1] = SignContext THEN MsgCode(mh[2]) ELSE 0

\* H(R, group_key, message_hash) -> scalar.
compute_challenge(message_hash, group_key, R) ==
    (2 * R + 3 * group_key + DigestCode(message_hash)) % Q

\* The hash of the proof of knowledge of a secret key.
NizkHash(index, public_key, M) == (index + 2 * public_key + 3 * M + 1) % Q

(* ------------------- frost_dalek: key generation ---------------------- *)
Range(s) == {s[k] : k \in 1..Len(s)}

\* seq with its element at position k (1-based) removed: Vec::remove.
RemoveAt(s, k) == [j \in 1..(Len(s) - 1) |-> IF j < k THEN s[j] ELSE s[j + 1]]

\* NizkOfSecretKey::prove: nonce k, M = k*G, s = H(index, A, M), r = k + a*s.
NizkProve(index, secret_key, public_key, k) ==
    LET s == NizkHash(index, public_key, BasepointMul(k))
    IN [s |-> s, r |-> Add(k, Mul(secret_key, s))]

\* NizkOfSecretKey::verify: M' = r*G - s*A, accepted when s = H(index, A, M').
NizkVerify(proof, index, public_key) ==
    LET M == Sub(BasepointMul(proof.r), Mul(public_key, proof.s))
    IN proof.s = NizkHash(index, public_key, M)

\* Participant::new(&params, index): t random coefficients, their
\* commitments, and a proof of knowledge of the constant term.  The draws
\* are those at positions base .. base + t of the random stream.
Participant_new(params, index, seed, base) ==
    LET coeff == [k \in 1..params.t |-> Rand(seed, base + k - 1)]
        commitments == [k \in 1..params.t |-> BasepointMul(coeff[k])]
    IN [participant |->
            [index |-> index,
             commitments |-> commitments,
             proof_of_secret_key |->
                 NizkProve(index, coeff[1], commitments[1],
                           Rand(seed, base + params.t))],
        coeff |-> coeff]

\* Participant::public_key(): the commitment to the constant term.
public_key(participant) == participant.commitments[1]

\* SecretShare::evaluate_polynomial: Horner's rule over the coefficients,
\* highest first.
RECURSIVE Horner(_, _, _)
Horner(rev, term, k) ==
    IF k = 1 THEN rev[1] % Q
    ELSE Add(Mul(Horner(rev, term, k - 1), term), rev[k])

evaluate_polynomial(index, coeff) ==
    [index |-> index,
     polynomial_evaluation |->
        LET rev == [k \in 1..Len(coeff) |-> coeff[Len(coeff) - k + 1]]
        IN Horner(rev, index % Q, Len(coeff))]

\* SecretShare::verify(commitment): g^share = sum of commitment[k] * index^k.
SecretShare_verify(share, commitment) ==
    LET rev == [k \in 1..Len(commitment) |-> commitment[Len(commitment) - k + 1]]
    IN BasepointMul(share.polynomial_evaluation)
         = Horner(rev, share.index % Q, Len(commitment))

\* DistributedKeyGeneration::<RoundOne>::new.
DistributedKeyGeneration_new(params, my_index, my_coefficients, other_participants) ==
    LET misbehaving ==
            {p.index : p \in {q \in Range(other_participants) :
                ~NizkVerify(q.proof_of_secret_key, q.index, public_key(q))}}
    IN IF Len(other_participants) # params.n - 1
       THEN [ok |-> FALSE, err |-> {}]
       ELSE IF misbehaving # {}
       THEN [ok |-> FALSE, err |-> misbehaving]
       ELSE [ok |-> TRUE,
             val |-> [index |-> my_index,
                      their_commitments |->
                          [k \in 1..Len(other_participants) |->
                              <<other_participants[k].index,
                                other_participants[k].commitments>>],
                      their_secret_shares |->
                          [k \in 1..Len(other_participants) |->
                              evaluate_polynomial(other_participants[k].index,
                                                  my_coefficients)],
                      my_secret_share |->
                          evaluate_polynomial(my_index, my_coefficients),
                      my_secret_shares |-> <<>>]]

\* DistributedKeyGeneration::<RoundOne>::to_round_two: a received share is
\* verified against the commitment filed under the share's own index.
to_round_two(state, my_secret_shares) ==
    IF \E sh \in Range(my_secret_shares) :
          \E c \in Range(state.their_commitments) :
              c[1] = sh.index /\ ~SecretShare_verify(sh, c[2])
    THEN [ok |-> FALSE]
    ELSE [ok |-> TRUE,
          val |-> [state EXCEPT !.their_secret_shares = <<>>,
                                !.my_secret_shares = my_secret_shares]]

\* finish, with the group key summed over the other participants only.
finish_without_own(state, my_commitment) ==
    [ok |-> TRUE,
     group_key |->
        SumSeq([k \in 1..Len(state.their_commitments) |->
                    state.their_commitments[k][2][1]]),
     secret_key |->
        [index |-> state.index,
         key |-> Add(SumSeq([k \in 1..Len(state.my_secret_shares) |->
                        state.my_secret_shares[k].polynomial_evaluation]),
                     state.my_secret_share.polynomial_evaluation)]]

\* finish, with the secret key summed over the received shares only.
finish_without_own_share(state, my_commitment) ==
    [ok |-> TRUE,
     group_key |->
        Add(SumSeq([k \in 1..Len(state.their_commitments) |->
                        state.their_commitments[k][2][1]]),
            my_commitment),
     secret_key |->
        [index |-> state.index,
         key |-> SumSeq([k \in 1..Len(state.my_secret_shares) |->
                        state.my_secret_shares[k].polynomial_evaluation])]]

\* DistributedKeyGeneration::<RoundTwo>::finish(my_commitment): the secret
\* key is the sum of the received shares and the own share; the group key
\* is the sum of the other participants' constant-term commitments and
\* my_commitment.
finish(state, my_commitment) ==
    [ok |-> TRUE,
     group_key |->
        Add(SumSeq([k \in 1..Len(state.their_commitments) |->
                        state.their_commitments[k][2][1]]),
            my_commitment),
     secret_key |->
        [index |-> state.index,
         key |-> Add(SumSeq([k \in 1..Len(state.my_secret_shares) |->
                        state.my_secret_shares[k].polynomial_evaluation]),
                     state.my_secret_share.polynomial_evaluation)]]

\* SecretKey::to_bytes(): (key bytes, participant index).
SecretKey_to_bytes(secret_key) == <<to_bytes(secret_key.key), secret_key.index>>

\* SecretKey::from_bytes(index, bytes).
SecretKey_from_bytes(index, bytes) ==
    LET d == from_bytes(bytes)
    IN IF d.ok THEN [ok |-> TRUE, val |-> [index |-> index, key |-> d.val]]
       ELSE [ok |-> FALSE]

(* ---------------------- frost_dalek: signing -------------------------- *)
\* GroupKey::to_bytes, GroupKey::from_bytes.
GroupKey_to_bytes(group_key) == to_bytes(group_key)

GroupKey_from_bytes(bytes) == from_bytes(bytes)

\* SecretKey::to_public(): the public key share key*G, with the index.
to_public(secret_key) ==
    [index |-> secret_key.index, share |-> BasepointMul(secret_key.key)]

\* generate_commitment_share_lists, drawing from the start of the stream
\* whatever has been drawn before.
generate_commitment_share_lists_replayed(seed, base, participant_index, number_of_shares) ==
    LET commitments ==
            [k \in 1..number_of_shares |->
                [id |-> 2 * (k - 1),
                 hiding |-> Rand(seed, 2 * (k - 1)),
                 binding |-> Rand(seed, 2 * (k - 1) + 1)]]
    IN [pub |-> [participant_index |-> participant_index,
                 commitments |->
                    [k \in 1..number_of_shares |->
                        <<BasepointMul(commitments[k].hiding),
                          BasepointMul(commitments[k].binding)>>]],
        sec |-> [commitments |-> commitments]]

\* generate_commitment_share_lists(rng, participant_index, number_of_shares):
\* each share is a fresh pair of nonces (hiding, binding), identified by the
\* position `id` of its draw; the public list holds their commitments.
generate_commitment_share_lists(seed, base, participant_index, number_of_shares) ==
    LET commitments ==
            [k \in 1..number_of_shares |->
                [id |-> base + 2 * (k - 1),
                 hiding |-> Rand(seed, base + 2 * (k - 1)),
                 binding |-> Rand(seed, base + 2 * (k - 1) + 1)]]
    IN [pub |-> [participant_index |-> participant_index,
                 commitments |->
                    [k \in 1..number_of_shares |->
                        <<BasepointMul(commitments[k].hiding),
                          BasepointMul(commitments[k].binding)>>]],
        sec |-> [commitments |-> commitments]]

\* drop_share, leaving the list as it is.
drop_share_kept(list, share) == list

\* SecretCommitmentShareList::drop_share: remove the (last) share equal to
\* `share` from the list.
drop_share(list, share) ==
    LET hits == {k \in 1..Len(list.commitments) : list.commitments[k] = share}
    IN IF hits = {} THEN list
       ELSE [commitments |->
                RemoveAt(list.commitments,
                         CHOOSE k \in hits : \A h \in hits : h <= k)]

\* The use SecretKey::sign makes of its list: the share at
\* my_commitment_share_index is taken and dropped from the list; an index
\* past the end of the list is an error.
take_share(list, my_commitment_share_index) ==
    IF my_commitment_share_index + 1 > Len(list.commitments)
    THEN [ok |-> FALSE, err |-> "Commitment share index out of bounds",
          list |-> list]
    ELSE LET share == list.commitments[my_commitment_share_index + 1]
         IN [ok |-> TRUE, share |-> share, list |-> drop_share(list, share)]

\* Vec<Signer>::sort (stable, by participant index).
RECURSIVE InsertSigner(_, _)
InsertSigner(sorted, x) ==
    IF sorted = <<>> THEN <<x>>
    ELSE IF x.participant_index < sorted[1].participant_index
         THEN <<x>> \o sorted
         ELSE <<sorted[1]>> \o InsertSigner(Tail(sorted), x)

RECURSIVE SortSigners(_)
SortSigners(signers) ==
    IF signers = <<>> THEN <<>>
    ELSE InsertSigner(SortSigners(SubSeq(signers, 1, Len(signers) - 1)),
                      signers[Len(signers)])

\* Vec<Signer>::dedup: of consecutive signers with one participant index,
\* the first is kept.
RECURSIVE DedupSigners(_)
DedupSigners(signers) ==
    IF Len(signers) <= 1 THEN signers
    ELSE LET rest == DedupSigners(Tail(signers))
         IN IF signers[1].participant_index = rest[1].participant_index
            THEN <<signers[1]>> \o Tail(rest)
            ELSE <<signers[1]>> \o rest

SignerIndices(signers) == {signers[k].participant_index : k \in 1..Len(signers)}

\* The hash of the message digest and the ordered list of signers'
\* commitments, which every binding factor extends.
ListHash(message_hash, signers) ==
    (DigestCode(message_hash)
       + SumSeq([k \in 1..Len(signers) |->
            (k * (signers[k].participant_index
                  + 2 * signers[k].published_commitment_share[1]
                  + 3 * signers[k].published_commitment_share[2])) % Q])) % Q

\* The last signer of the list with participant index i (a later insert into
\* a HashMap replaces an earlier one).
LastOf(signers, i) ==
    signers[CHOOSE k \in 1..Len(signers) :
                /\ signers[k].participant_index = i
                /\ \A j \in 1..Len(signers) :
                       signers[j].participant_index = i => j <= k]

\* compute_binding_factors_and_group_commitment: for each signer its binding
\* factor rho_i and its commitment R_i = D_i + rho_i * E_i.
compute_binding_factors_and_group_commitment(message_hash, signers) ==
    LET h == ListHash(message_hash, signers)
        rho(sg) == (2 * h + sg.participant_index
                      + sg.published_commitment_share[1]
                      + 4 * sg.published_commitment_share[2] + 1) % Q
        idx == SignerIndices(signers)
    IN [binding_factors |-> [i \in idx |-> rho(LastOf(signers, i))],
        Rs |-> [i \in idx |->
                   LET sg == LastOf(signers, i)
                   IN Add(sg.published_commitment_share[1],
                          Mul(rho(sg), sg.published_commitment_share[2]))]]

RECURSIVE SumOver(_, _)
SumOver(f, S) ==
    IF S = {} THEN 0
    ELSE LET x == CHOOSE y \in S : TRUE
         IN Add(f[x], SumOver(f, S \ {x}))

RECURSIVE LagrangeNum(_, _, _)
LagrangeNum(mine, all, k) ==
    IF k = 0 THEN 1
    ELSE IF all[k] = mine THEN LagrangeNum(mine, all, k - 1)
    ELSE Mul(LagrangeNum(mine, all, k - 1), all[k] % Q)

RECURSIVE LagrangeDen(_, _, _)
LagrangeDen(mine, all, k) ==
    IF k = 0 THEN 1
    ELSE IF all[k] = mine THEN LagrangeDen(mine, all, k - 1)
    ELSE Mul(LagrangeDen(mine, all, k - 1), Sub(all[k], mine))

\* calculate_lagrange_coefficients(participant_index, all_participant_indices).
calculate_lagrange_coefficients(participant_index, all_participant_indices) ==
    LET num == LagrangeNum(participant_index, all_participant_indices,
                           Len(all_participant_indices))
        den == LagrangeDen(participant_index, all_participant_indices,
                           Len(all_participant_indices))
    IN IF den = 0 THEN [ok |-> FALSE, err |-> "Duplicate shares provided"]
       ELSE [ok |-> TRUE, val |-> Mul(num, Invert(den))]

\* SecretKey::sign(message_hash, group_key, my_secret_commitment_share_list,
\* my_commitment_share_index, signers): the partial signature
\* z = d + e * rho + lambda * key * c; the share used is dropped from the list.
sign(secret_key, message_hash, group_key, list, my_commitment_share_index, signers) ==
    LET bf == compute_binding_factors_and_group_commitment(message_hash, signers)
        R == SumOver(bf.Rs, DOMAIN bf.Rs)
        challenge == compute_challenge(message_hash, group_key, R)
        all == [k \in 1..Len(signers) |-> signers[k].participant_index]
        lambda == calculate_lagrange_coefficients(secret_key.index, all)
        taken == take_share(list, my_commitment_share_index)
        share == taken.share
    IN IF ~taken.ok
       THEN [ok |-> FALSE, err |-> taken.err, list |-> list]
       ELSE IF secret_key.index \notin DOMAIN bf.binding_factors
       THEN [ok |-> FALSE, err |-> "Could not compute our blinding factor",
             list |-> list]
       ELSE IF ~lambda.ok
       THEN [ok |-> FALSE, err |-> lambda.err, list |-> list]
       ELSE [ok |-> TRUE,
             val |-> [index |-> secret_key.index,
                      z |-> Add(Add(share.hiding,
                                    Mul(share.binding,
                                        bf.binding_factors[secret_key.index])),
                                Mul(Mul(lambda.val, secret_key.key), challenge))],
             used |-> share.id,
             list |-> taken.list]

\* SignatureAggregator::new(params, group_key, context, message).
SignatureAggregator_new(params, group_key, context, message) ==
    [parameters |-> params, signers |-> <<>>, public_keys |-> <<>>,
     partial_signatures |-> <<>>, group_key |-> group_key,
     context |-> context, message |-> message]

\* f with f[k] = v added or replaced: HashMap::insert.
Insert(f, k, v) == [x \in (DOMAIN f) \cup {k} |-> IF x = k THEN v ELSE f[x]]

\* SignatureAggregator::include_signer.
include_signer(aggregator, participant_index, published_commitment_share, pk) ==
    [aggregator EXCEPT
        !.signers = Append(@, [participant_index |-> participant_index,
                               published_commitment_share |->
                                   published_commitment_share]),
        !.public_keys = Insert(@, pk.index, pk.share)]

\* SignatureAggregator::get_signers: sorts and deduplicates the signers.
get_signers(aggregator) ==
    [aggregator EXCEPT !.signers = DedupSigners(SortSigners(@))]

\* include_partial_signature, losing the partial signature.
include_partial_signature_lost(aggregator, partial_signature) == aggregator

\* SignatureAggregator::include_partial_signature.
include_partial_signature(aggregator, partial_signature) ==
    [aggregator EXCEPT
        !.partial_signatures = Insert(@, partial_signature.index, partial_signature.z)]

\* SignatureAggregator::finalize: every signer has sent a partial signature
\* and has a public key; otherwise the signers at fault are reported.
finalize(aggregator) ==
    LET remaining == {i \in SignerIndices(aggregator.signers) :
                         i \notin DOMAIN aggregator.partial_signatures}
        sorted == get_signers(aggregator)
        keyless == {i \in SignerIndices(sorted.signers) :
                         i \notin DOMAIN sorted.public_keys}
    IN IF remaining # {}
       THEN [ok |-> FALSE, err |-> remaining]
       ELSE IF keyless # {}
       THEN [ok |-> FALSE, err |-> keyless]
       ELSE [ok |-> TRUE,
             val |-> [state |-> sorted,
                      message_hash |->
                          compute_message_hash(sorted.context, sorted.message)]]

\* aggregate, summing the partial signatures without checking them.
aggregate_unchecked(finalized) ==
    LET st == finalized.state
        bf == compute_binding_factors_and_group_commitment(
                  finalized.message_hash, st.signers)
        all == [k \in 1..Len(st.signers) |-> st.signers[k].participant_index]
    IN [ok |-> TRUE,
        val |-> [R |-> SumOver(bf.Rs, DOMAIN bf.Rs),
                 z |-> SumSeq([k \in 1..Len(st.signers) |->
                          st.partial_signatures[all[k]]])]]

\* aggregate, leaving the last signer's partial signature out of the sum.
aggregate_short(finalized) ==
    LET st == finalized.state
        bf == compute_binding_factors_and_group_commitment(
                  finalized.message_hash, st.signers)
        all == [k \in 1..Len(st.signers) |-> st.signers[k].participant_index]
    IN [ok |-> TRUE,
        val |-> [R |-> SumOver(bf.Rs, DOMAIN bf.Rs),
                 z |-> SumSeq([k \in 1..(Len(st.signers) - 1) |->
                          st.partial_signatures[all[k]]])]]

\* SignatureAggregator::aggregate: each partial signature is checked,
\* z_i * G = R_i + (c * lambda_i) * Y_i; the signature is (R, sum of z_i), or
\* the set of signers whose partial signature is incorrect.
aggregate(finalized) ==
    LET st == finalized.state
        bf == compute_binding_factors_and_group_commitment(
                  finalized.message_hash, st.signers)
        R == SumOver(bf.Rs, DOMAIN bf.Rs)
        c == compute_challenge(finalized.message_hash, st.group_key, R)
        all == [k \in 1..Len(st.signers) |-> st.signers[k].participant_index]
        good(i) ==
            BasepointMul(st.partial_signatures[i])
              = Add(bf.Rs[i],
                    Mul(st.public_keys[i],
                        Mul(c, calculate_lagrange_coefficients(i, all).val)))
        misbehaving == {i \in SignerIndices(st.signers) : ~good(i)}
    IN IF misbehaving # {}
       THEN [ok |-> FALSE, err |-> misbehaving]
       ELSE [ok |-> TRUE,
             val |-> [R |-> R,
                      z |-> SumSeq([k \in 1..Len(st.signers) |->
                               st.partial_signatures[all[k]]])]]

\* ThresholdSignature::to_bytes, with the two halves in the other order.
ThresholdSignature_to_bytes_z_first(sig) == to_bytes(sig.z) \o to_bytes(sig.R)

\* ThresholdSignature::to_bytes: the encoding of R, then that of z.
ThresholdSignature_to_bytes(sig) == to_bytes(sig.R) \o to_bytes(sig.z)

\* ThresholdSignature::from_bytes.
ThresholdSignature_from_bytes(bytes) ==
    LET R == from_bytes(SubSeq(bytes, 1, KeyLen))
        z == from_bytes(SubSeq(bytes, KeyLen + 1, 2 * KeyLen))
    IN IF R.ok /\ z.ok THEN [ok |-> TRUE, val |-> [R |-> R.val, z |-> z.val]]
       ELSE [ok |-> FALSE]

\* ThresholdSignature::verify(group_key, message_hash): R = z*G - c*group_key.
verify(sig, group_key, message_hash) ==
    LET c == compute_challenge(message_hash, group_key, sig.R)
    IN sig.R = Sub(BasepointMul(sig.z), Mul(c, group_key))


(* ------------------------------- state -------------------------------- *)
VARIABLES
    rng,        \* the random source: its seed and the number of draws made
    keyFile,    \* the key file: NoFile, or the FrostKeys written to it
    sigFile,    \* the signature file: NoFile, or the bytes written to it
    kg,         \* generate_keys: its position and its local variables
    ss,         \* sign_message: per call in progress, position and locals
    origin,     \* what the signature file holds: the call that wrote it
    vr,         \* validate_signature: the last call and its result
    pool        \* a secret commitment share list drawn from repeatedly

vars == <<rng, keyFile, sigFile, kg, ss, origin, vr, pool>>

\* The processes that may run sign_message.
Sessions == {"A", "B"}

Seeds == 0..MaxSeed

KgIdle ==
    [pc |-> "idle", params |-> [t |-> 0, n |-> 0], i |-> 0,
     participants |-> <<>>, coefficients |-> <<>>,
     dkg_states |-> <<>>, all_secret_shares |-> <<>>,
     dkg_states_round_two |-> <<>>,
     group_keys |-> <<>>, private_shares |-> <<>>, err |-> "none",
     who |-> 0, expected |-> 0, got |-> 0,
     fault |-> "none", verified |-> 0]

NoPool == [made |-> FALSE]

SsIdle ==
    [pc |-> "idle", message |-> "", params |-> [t |-> 0, n |-> 0],
     group_key |-> 0, secret_keys |-> <<>>, signers |-> <<>>,
     public_comshares |-> <<>>, secret_comshares |-> <<>>,
     message_hash |-> <<>>, aggregator |-> <<>>,
     dispensed |-> {}, consumed |-> <<>>,
     threshold_signature |-> <<>>, err |-> "none", who |-> {},
     corrupted |-> {}, lost |-> {}]

Running(pc) == pc \notin {"idle", "done", "failed", "panicked"}

\* No command is in progress.
Quiet == ~Running(kg.pc) /\ \A s \in Sessions : ~Running(ss[s].pc)

Init ==
    /\ rng \in [seed : Seeds, ctr : {0}]
    /\ keyFile = NoFile
    /\ sigFile = NoFile
    /\ kg = KgIdle
    /\ ss = [s \in Sessions |-> SsIdle]
    /\ origin = [written |-> FALSE]
    /\ vr = [ran |-> FALSE]
    /\ pool = NoPool

(* --------------------------- generate_keys ---------------------------- *)
\* The constant terms drawn do not sum to zero: the group key is not the
\* identity (an event of negligible probability for the real random source).
NonDegenerate(coefficients) ==
    SumSeq([k \in 1..Len(coefficients) |-> coefficients[k][1]]) # 0

\* Step 1, with the key file created on the way in.
CreateParticipants_creating(t, n) ==
    LET params == [t |-> t, n |-> n]
        made == [i \in 1..n |->
                    Participant_new(params, i, rng.seed, rng.ctr + (i - 1) * (t + 1))]
    IN /\ kg.pc = "idle"
       /\ Quiet
       /\ NonDegenerate([i \in 1..n |-> made[i].coeff])
       /\ kg' = [kg EXCEPT !.pc = "step2", !.params = params, !.i = 0,
                           !.participants = [i \in 1..n |-> made[i].participant],
                           !.coefficients = [i \in 1..n |-> made[i].coeff]]
       /\ rng' = [rng EXCEPT !.ctr = @ + n * (t + 1)]
       /\ keyFile' = [exists |-> TRUE, group_key |-> <<>>, private_shares |-> <<>>]
       /\ UNCHANGED <<pool, sigFile, ss, origin, vr>>

\* Step 1: create the participants and their polynomial coefficients.
CreateParticipants(t, n) ==
    LET params == [t |-> t, n |-> n]
        made == [i \in 1..n |->
                    Participant_new(params, i, rng.seed, rng.ctr + (i - 1) * (t + 1))]
    IN /\ kg.pc = "idle"
       /\ Quiet
       /\ NonDegenerate([i \in 1..n |-> made[i].coeff])
       /\ kg' = [kg EXCEPT !.pc = "step2", !.params = params, !.i = 0,
                           !.participants = [i \in 1..n |-> made[i].participant],
                           !.coefficients = [i \in 1..n |-> made[i].coeff]]
       /\ rng' = [rng EXCEPT !.ctr = @ + n * (t + 1)]
       /\ UNCHANGED <<pool, keyFile, sigFile, ss, origin, vr>>

\* Step 2, going on to the next participant whatever the verification says.
VerifyProof_ignored ==
    /\ kg.pc = "step2"
    /\ kg.i < Len(kg.participants)
    /\ kg' = [kg EXCEPT !.i = @ + 1]
    /\ UNCHANGED <<pool, rng, keyFile, sigFile, ss, origin, vr>>

\* Step 2, one iteration: verify one participant's proof of secret key.
VerifyProof ==
    LET participant == kg.participants[kg.i + 1]
    IN /\ kg.pc = "step2"
       /\ kg.i < Len(kg.participants)
       /\ kg' = IF NizkVerify(participant.proof_of_secret_key, participant.index,
                              public_key(participant))
                THEN [kg EXCEPT !.i = @ + 1, !.verified = @ + 1]
                ELSE [kg EXCEPT !.pc = "failed",
                                !.err = "Proof of secret key verification failed",
                                !.who = participant.index]
       /\ UNCHANGED <<pool, rng, keyFile, sigFile, ss, origin, vr>>

\* Going on to the next step without waiting for the loop to be over.
NextStep_early(from, to) ==
    /\ kg.pc = from
    /\ kg' = [kg EXCEPT !.pc = to, !.i = 0]
    /\ UNCHANGED <<pool, rng, keyFile, sigFile, ss, origin, vr>>

\* The loop of a step is over: go on to the next step.
NextStep(from, to) ==
    /\ kg.pc = from
    /\ kg.i = Len(kg.participants)
    /\ kg' = [kg EXCEPT !.pc = to, !.i = 0]
    /\ UNCHANGED <<pool, rng, keyFile, sigFile, ss, origin, vr>>

\* Step 3, one iteration: participant i's first round of the DKG.
RoundOne ==
    LET i == kg.i
        other_participants == RemoveAt(kg.participants, i + 1)
        participant_state ==
            DistributedKeyGeneration_new(kg.params, kg.participants[i + 1].index,
                                         kg.coefficients[i + 1], other_participants)
    IN /\ kg.pc = "step3"
       /\ i < Len(kg.participants)
       /\ kg' = IF participant_state.ok
                THEN [kg EXCEPT !.i = @ + 1,
                        !.dkg_states = Append(@, participant_state.val),
                        !.all_secret_shares =
                            Append(@, participant_state.val.their_secret_shares)]
                ELSE [kg EXCEPT !.pc = "failed",
                                !.err = "DistributedKeyGeneration failed",
                                !.who = kg.participants[i + 1].index]
       /\ UNCHANGED <<pool, rng, keyFile, sigFile, ss, origin, vr>>

\* SharesFor, taking from every list the share at position i.
RECURSIVE SharesFor_at_own_position(_, _, _)
SharesFor_at_own_position(all_secret_shares, i, j) ==
    IF j >= Len(all_secret_shares) THEN <<>>
    ELSE LET shares == all_secret_shares[j + 1]
             rest == SharesFor_at_own_position(all_secret_shares, i, j + 1)
         IN IF j = i \/ i + 1 > Len(shares) THEN rest
            ELSE <<shares[i + 1]>> \o rest

\* The shares participant i (0-based) takes from all_secret_shares: from
\* each other participant j, the share at position pos of j's list.
RECURSIVE SharesFor(_, _, _)
SharesFor(all_secret_shares, i, j) ==
    IF j >= Len(all_secret_shares) THEN <<>>
    ELSE LET shares == all_secret_shares[j + 1]
             pos == IF i < j THEN i ELSE i - 1
             rest == SharesFor(all_secret_shares, i, j + 1)
         IN IF j = i \/ pos + 1 > Len(shares) THEN rest
            ELSE <<shares[pos + 1]>> \o rest

\* Step 4, one iteration, without the check of the number of shares.
RoundTwo_unchecked ==
    LET i == kg.i
        my_secret_shares == SharesFor(kg.all_secret_shares, i, 0)
        round_two_state == to_round_two(kg.dkg_states[i + 1], my_secret_shares)
    IN /\ kg.pc = "step4"
       /\ i < Len(kg.dkg_states)
       /\ kg' = IF ~round_two_state.ok
                THEN [kg EXCEPT !.pc = "failed", !.err = "Round 2 failed",
                                !.who = kg.participants[i + 1].index]
                ELSE [kg EXCEPT !.i = @ + 1,
                        !.dkg_states_round_two = Append(@, round_two_state.val)]
       /\ UNCHANGED <<pool, rng, keyFile, sigFile, ss, origin, vr>>

\* Step 4, one iteration: participant i's second round of the DKG.
RoundTwo ==
    LET i == kg.i
        my_secret_shares == SharesFor(kg.all_secret_shares, i, 0)
        round_two_state == to_round_two(kg.dkg_states[i + 1], my_secret_shares)
    IN /\ kg.pc = "step4"
       /\ i < Len(kg.dkg_states)
       /\ kg' = IF Len(my_secret_shares) # kg.params.n - 1
                THEN [kg EXCEPT !.pc = "failed",
                                !.err = "received incorrect number of shares",
                                !.who = kg.participants[i + 1].index,
                                !.expected = kg.params.n - 1,
                                !.got = Len(my_secret_shares)]
                ELSE IF ~round_two_state.ok
                THEN [kg EXCEPT !.pc = "failed", !.err = "Round 2 failed",
                                !.who = kg.participants[i + 1].index]
                ELSE [kg EXCEPT !.i = @ + 1,
                        !.dkg_states_round_two = Append(@, round_two_state.val)]
       /\ UNCHANGED <<pool, rng, keyFile, sigFile, ss, origin, vr>>

\* Step 5, one iteration, without the comparison of the group keys.
Finish_unchecked ==
    LET i == kg.i
        fin == finish(kg.dkg_states_round_two[i + 1],
                      public_key(kg.participants[i + 1]))
    IN /\ kg.pc = "step5"
       /\ i < Len(kg.dkg_states_round_two)
       /\ kg' = IF ~fin.ok
                THEN [kg EXCEPT !.pc = "failed", !.err = "Failed to finish DKG",
                                !.who = kg.participants[i + 1].index]
                ELSE [kg EXCEPT !.i = @ + 1,
                        !.group_keys = Append(@, fin.group_key),
                        !.private_shares = Append(@, SecretKey_to_bytes(fin.secret_key))]
       /\ UNCHANGED <<pool, rng, keyFile, sigFile, ss, origin, vr>>

\* Step 5, one iteration: participant i finishes the DKG.
Finish ==
    LET i == kg.i
        fin == finish(kg.dkg_states_round_two[i + 1],
                      public_key(kg.participants[i + 1]))
    IN /\ kg.pc = "step5"
       /\ i < Len(kg.dkg_states_round_two)
       /\ kg' = IF ~fin.ok
                THEN [kg EXCEPT !.pc = "failed", !.err = "Failed to finish DKG",
                                !.who = kg.participants[i + 1].index]
                ELSE IF i > 0 /\ fin.group_key # kg.group_keys[i]
                THEN [kg EXCEPT !.pc = "panicked", !.err = "assert_eq",
                        !.group_keys = Append(@, fin.group_key),
                        !.private_shares = Append(@, SecretKey_to_bytes(fin.secret_key))]
                ELSE [kg EXCEPT !.i = @ + 1,
                        !.group_keys = Append(@, fin.group_key),
                        !.private_shares = Append(@, SecretKey_to_bytes(fin.secret_key))]
       /\ UNCHANGED <<pool, rng, keyFile, sigFile, ss, origin, vr>>

\* Combine the group key and the private shares and save them.
SaveKeys ==
    /\ kg.pc = "save"
    /\ keyFile' = [exists |-> TRUE,
                   group_key |-> to_bytes(kg.group_keys[1]),
                   private_shares |-> kg.private_shares]
    /\ kg' = [kg EXCEPT !.pc = "done"]
    /\ UNCHANGED <<pool, rng, sigFile, ss, origin, vr>>

generate_keys ==
    \/ \E n \in 1..MaxN : \E t \in 1..n : CreateParticipants(t, n)
    \/ VerifyProof
    \/ NextStep("step2", "step3")
    \/ RoundOne
    \/ NextStep("step3", "step4")
    \/ RoundTwo
    \/ NextStep("step4", "step5")
    \/ Finish
    \/ NextStep("step5", "save")
    \/ SaveKeys

(* ---------------------------- sign_message ---------------------------- *)
Perms(n) == {p \in [1..n -> 1..n] : \A a, b \in 1..n : p[a] = p[b] => a = b}

\* The key files a caller may name: the generated key material, with the
\* shares in any order (none when no key material has been generated).
KeyFiles ==
    IF ~keyFile.exists THEN {NoFile}
    ELSE {[keyFile EXCEPT !.private_shares =
                [k \in 1..Len(keyFile.private_shares) |->
                    keyFile.private_shares[p[k]]]] :
            p \in Perms(Len(keyFile.private_shares))}

\* The generated key file as it is.
KeyFileAsWritten == {keyFile}

Set(s, rec) == ss' = [ss EXCEPT ![s] = rec]

Fail(s, err, who) == Set(s, [ss[s] EXCEPT !.pc = "failed", !.err = err, !.who = who])

\* Steps 1 to 4: load the keys from the file, set up the parameters, load
\* the group key and reconstruct the secret keys.
LoadKeys(s, message, t, n, key_file) ==
    LET group_key == GroupKey_from_bytes(key_file.group_key)
        decoded == [k \in 1..Len(key_file.private_shares) |->
                       SecretKey_from_bytes(key_file.private_shares[k][2],
                                            key_file.private_shares[k][1])]
        fresh == [SsIdle EXCEPT !.message = message,
                                !.params = [t |-> t, n |-> n]]
    IN /\ ss[s].pc = "idle"
       /\ ~Running(kg.pc)
       /\ ss' = [ss EXCEPT ![s] =
            IF ~key_file.exists
            THEN [fresh EXCEPT !.pc = "failed", !.err = "File::open"]
            ELSE IF ~group_key.ok
            THEN [fresh EXCEPT !.pc = "failed", !.err = "Invalid group public key"]
            ELSE IF \E k \in 1..Len(decoded) : ~decoded[k].ok
            THEN [fresh EXCEPT !.pc = "failed", !.err = "Invalid private key bytes"]
            ELSE [fresh EXCEPT !.pc = "loaded",
                               !.group_key = group_key.val,
                               !.secret_keys =
                                   [k \in 1..Len(decoded) |-> decoded[k].val]]]
       /\ UNCHANGED <<pool, rng, keyFile, sigFile, kg, origin, vr>>

\* Steps 5 and 6, the secret lists kept in the reverse order of the signers.
ChooseSigners_crossed(s) ==
    LET t == ss[s].params.t
        signers == SubSeq(ss[s].secret_keys, 1, t)
        lists == [k \in 1..t |->
                    generate_commitment_share_lists(
                        rng.seed, rng.ctr + 2 * ShareListLen * (k - 1),
                        signers[k].index, ShareListLen)]
    IN /\ ss[s].pc = "loaded"
       /\ IF t > Len(ss[s].secret_keys)
          THEN /\ Set(s, [ss[s] EXCEPT !.pc = "panicked",
                                       !.err = "range end index out of range"])
               /\ rng' = rng
          ELSE /\ Set(s, [ss[s] EXCEPT !.pc = "committed",
                    !.signers = signers,
                    !.public_comshares =
                        [k \in 1..t |-> <<signers[k].index, lists[k].pub>>],
                    !.secret_comshares =
                        [k \in 1..t |->
                            <<signers[k].index, lists[t - k + 1].sec>>],
                    !.dispensed =
                        UNION {{c.id : c \in Range(lists[k].sec.commitments)} :
                                 k \in 1..t}])
               /\ rng' = [rng EXCEPT !.ctr = @ + 2 * ShareListLen * t]
       /\ UNCHANGED <<pool, keyFile, sigFile, kg, origin, vr>>

\* Steps 5 and 6: choose the first t secret keys as signers and generate a
\* list of commitment shares for each.
ChooseSigners(s) ==
    LET t == ss[s].params.t
        signers == SubSeq(ss[s].secret_keys, 1, t)
        lists == [k \in 1..t |->
                    generate_commitment_share_lists(
                        rng.seed, rng.ctr + 2 * ShareListLen * (k - 1),
                        signers[k].index, ShareListLen)]
    IN /\ ss[s].pc = "loaded"
       /\ IF t > Len(ss[s].secret_keys)
          THEN /\ Set(s, [ss[s] EXCEPT !.pc = "panicked",
                                       !.err = "range end index out of range"])
               /\ rng' = rng
          ELSE /\ Set(s, [ss[s] EXCEPT !.pc = "committed",
                    !.signers = signers,
                    !.public_comshares =
                        [k \in 1..t |-> <<signers[k].index, lists[k].pub>>],
                    !.secret_comshares =
                        [k \in 1..t |-> <<signers[k].index, lists[k].sec>>],
                    !.dispensed =
                        UNION {{c.id : c \in Range(lists[k].sec.commitments)} :
                                 k \in 1..t}])
               /\ rng' = [rng EXCEPT !.ctr = @ + 2 * ShareListLen * t]
       /\ UNCHANGED <<pool, keyFile, sigFile, kg, origin, vr>>

RECURSIVE IncludeSigners(_, _, _, _)
IncludeSigners(aggregator, signers, public_comshares, k) ==
    IF k > Len(signers) \/ k > Len(public_comshares) THEN aggregator
    ELSE IncludeSigners(
            include_signer(aggregator, public_comshares[k][1],
                           public_comshares[k][2].commitments[1],
                           to_public(signers[k])),
            signers, public_comshares, k + 1)

\* Steps 7 to 10: hash the message, initialise the aggregator, include the
\* signers and get the list of participating signers.
IncludeAndGetSigners(s) ==
    LET aggregator ==
            get_signers(
                IncludeSigners(
                    SignatureAggregator_new(ss[s].params, ss[s].group_key,
                                            SignContext, ss[s].message),
                    ss[s].signers, ss[s].public_comshares, 1))
    IN /\ ss[s].pc = "committed"
       /\ Set(s, [ss[s] EXCEPT !.pc = "registered",
                    !.message_hash = compute_message_hash(SignContext, ss[s].message),
                    !.aggregator = aggregator,
                    !.signers = aggregator.signers])
       /\ UNCHANGED <<pool, rng, keyFile, sigFile, kg, origin, vr>>

\* Step 11, with the secret keys taken from the end of the list.
RECURSIVE PartialSignatures_from_end(_, _, _)
PartialSignatures_from_end(sess, acc, k) ==
    IF k > Len(sess.secret_keys) \/ k > Len(acc.secret_comshares) THEN acc
    ELSE LET partial_sig ==
                sign(sess.secret_keys[Len(sess.secret_keys) - k + 1],
                     sess.message_hash, sess.group_key,
                     acc.secret_comshares[k][2], ShareIndex, sess.signers)
         IN IF ~partial_sig.ok
            THEN [acc EXCEPT !.ok = FALSE, !.err = partial_sig.err]
            ELSE PartialSignatures_from_end(sess,
                    [acc EXCEPT
                        !.aggregator =
                            include_partial_signature(@, partial_sig.val),
                        !.secret_comshares[k] = <<@[1], partial_sig.list>>,
                        !.consumed = Append(@, partial_sig.used)],
                    k + 1)

\* Step 11 from its k-th iteration on: acc holds the aggregator, the secret
\* commitment share lists and the shares consumed so far.
RECURSIVE PartialSignatures(_, _, _)
PartialSignatures(sess, acc, k) ==
    IF k > Len(sess.secret_keys) \/ k > Len(acc.secret_comshares) THEN acc
    ELSE LET partial_sig == sign(sess.secret_keys[k], sess.message_hash,
                                 sess.group_key, acc.secret_comshares[k][2],
                                 ShareIndex, sess.signers)
         IN IF ~partial_sig.ok
            THEN [acc EXCEPT !.ok = FALSE, !.err = partial_sig.err]
            ELSE PartialSignatures(sess,
                    [acc EXCEPT
                        !.aggregator =
                            include_partial_signature(@, partial_sig.val),
                        !.secret_comshares[k] = <<@[1], partial_sig.list>>,
                        !.consumed = Append(@, partial_sig.used)],
                    k + 1)

\* Step 11: create and include the partial signatures.
CreatePartialSignatures(s) ==
    LET acc == PartialSignatures(ss[s],
                  [ok |-> TRUE, err |-> "none", aggregator |-> ss[s].aggregator,
                   secret_comshares |-> ss[s].secret_comshares,
                   consumed |-> <<>>], 1)
    IN /\ ss[s].pc = "registered"
       /\ IF acc.ok
          THEN Set(s, [ss[s] EXCEPT !.pc = "signed",
                          !.aggregator = acc.aggregator,
                          !.secret_comshares = acc.secret_comshares,
                          !.consumed = acc.consumed])
          ELSE Fail(s, acc.err, {})
       /\ UNCHANGED <<pool, rng, keyFile, sigFile, kg, origin, vr>>

\* Step 12, the signature file created before the aggregator is finalized.
FinalizeAndAggregate_created(s) ==
    LET finalized == finalize(ss[s].aggregator)
        threshold_signature == aggregate(finalized.val)
    IN /\ ss[s].pc = "signed"
       /\ IF ~finalized.ok
          THEN /\ Fail(s, "Failed to finalize aggregator", finalized.err)
               /\ sigFile' = [exists |-> TRUE, bytes |-> <<>>]
          ELSE IF ~threshold_signature.ok
          THEN /\ Fail(s, "Failed to aggregate signature", threshold_signature.err)
               /\ sigFile' = [exists |-> TRUE, bytes |-> <<>>]
          ELSE /\ Set(s, [ss[s] EXCEPT !.pc = "aggregated",
                            !.aggregator = finalized.val.state,
                            !.threshold_signature = threshold_signature.val])
               /\ sigFile' = sigFile
       /\ UNCHANGED <<pool, rng, keyFile, kg, origin, vr>>

\* Step 12: finalize the aggregator and aggregate the threshold signature.
FinalizeAndAggregate(s) ==
    LET finalized == finalize(ss[s].aggregator)
        threshold_signature == aggregate(finalized.val)
    IN /\ ss[s].pc = "signed"
       /\ IF ~finalized.ok
          THEN Fail(s, "Failed to finalize aggregator", finalized.err)
          ELSE IF ~threshold_signature.ok
          THEN Fail(s, "Failed to aggregate signature", threshold_signature.err)
          ELSE Set(s, [ss[s] EXCEPT !.pc = "aggregated",
                          !.aggregator = finalized.val.state,
                          !.threshold_signature = threshold_signature.val])
       /\ UNCHANGED <<pool, rng, keyFile, sigFile, kg, origin, vr>>

\* Step 13: save the signature.
SaveSignature(s) ==
    /\ ss[s].pc = "aggregated"
    /\ sigFile' = [exists |-> TRUE,
                   bytes |-> ThresholdSignature_to_bytes(ss[s].threshold_signature)]
    /\ origin' = [written |-> TRUE, by |-> s, message |-> ss[s].message,
                  signers |-> SignerIndices(ss[s].signers)]
    /\ Set(s, [ss[s] EXCEPT !.pc = "done"])
    /\ UNCHANGED <<pool, rng, keyFile, kg, vr>>

\* sign_message(message, t, n, key_file, signature_file), its steps after
\* the first.
sign_message(s) ==
    \/ ChooseSigners(s)
    \/ IncludeAndGetSigners(s)
    \/ CreatePartialSignatures(s)
    \/ FinalizeAndAggregate(s)
    \/ SaveSignature(s)

(* ------------------------- validate_signature ------------------------- *)
validate_signature(message) ==
    LET threshold_signature == ThresholdSignature_from_bytes(sigFile.bytes)
        group_key == GroupKey_from_bytes(keyFile.group_key)
        message_hash == compute_message_hash(VerifyContext, message)
        call == [ran |-> TRUE, message |-> message, origin |-> origin,
                 len |-> IF sigFile.exists THEN Len(sigFile.bytes) ELSE 0]
        Err(e) == vr' = call @@ [ok |-> FALSE, err |-> e]
    IN /\ Quiet
       /\ IF ~sigFile.exists THEN Err("File::open")
          ELSE IF Len(sigFile.bytes) # SigLen
          THEN Err("Invalid length for threshold signature")
          ELSE IF ~threshold_signature.ok
          THEN Err("Failed to deserialize ThresholdSignature")
          ELSE IF ~keyFile.exists THEN Err("File::open")
          ELSE IF ~group_key.ok THEN Err("Invalid group public key")
          ELSE IF ~verify(threshold_signature.val, group_key.val, message_hash)
          THEN vr' = call @@ [ok |-> FALSE, err |-> "Signature verification failed",
                              threshold_signature |-> threshold_signature.val,
                              group_key |-> group_key.val]
          ELSE vr' = call @@ [ok |-> TRUE, err |-> "none",
                              threshold_signature |-> threshold_signature.val,
                              group_key |-> group_key.val]
       /\ UNCHANGED <<pool, rng, keyFile, sigFile, kg, ss, origin>>

(* --------------------------- specifications --------------------------- *)
\* The commands run one after another: key generation, then sign_message
\* calls on any ordering of the generated shares, and validate_signature.
Next ==
    \/ generate_keys
    \/ \E m \in Messages, t \in 1..MaxN, kf \in KeyFiles :
          LoadKeys("A", m, t, MaxN, kf)
    \/ sign_message("A")
    \/ \E m \in Messages : validate_signature(m)

Spec == Init /\ [][Next]_vars

\* Two sign_message calls run concurrently on the key file as generated.
NextConc ==
    \/ generate_keys
    \/ \E s \in Sessions, m \in Messages, t \in 1..MaxN, kf \in KeyFileAsWritten :
          LoadKeys(s, m, t, MaxN, kf)
    \/ \E s \in Sessions : sign_message(s)

SpecConc == Init /\ [][NextConc]_vars

\* One signer's partial signature is corrupted on its way to the aggregator,
\* between steps 11 and 12.
Corrupt(s) ==
    /\ ss[s].pc = "signed"
    /\ ss[s].corrupted = {}
    /\ \E i \in DOMAIN ss[s].aggregator.partial_signatures :
       \E delta \in 1..(Q - 1) :
          Set(s, [ss[s] EXCEPT
                    !.corrupted = {i},
                    !.aggregator.partial_signatures[i] = Add(@, delta)])
    /\ UNCHANGED <<pool, rng, keyFile, sigFile, kg, origin, vr>>

NextTamper ==
    \/ generate_keys
    \/ \E m \in Messages, t \in 1..MaxN, kf \in KeyFiles :
          LoadKeys("A", m, t, MaxN, kf)
    \/ sign_message("A")
    \/ Corrupt("A")

SpecTamper == Init /\ [][NextTamper]_vars

\* A list of `count` commitment shares of one signer, and repeated draws of
\* a share from it the way SecretKey::sign draws one.
InitPool ==
    /\ rng \in [seed : Seeds, ctr : {0}]
    /\ keyFile = NoFile
    /\ sigFile = NoFile
    /\ kg = KgIdle
    /\ ss = [s \in Sessions |-> SsIdle]
    /\ origin = [written |-> FALSE]
    /\ vr = [ran |-> FALSE]
    /\ \E signer \in 1..MaxN, count \in 0..MaxCount :
          pool = [made |-> TRUE, signer |-> signer, count |-> count,
                  list |-> generate_commitment_share_lists(
                               rng.seed, 0, signer, count).sec,
                  results |-> <<>>]

TakeOne ==
    LET taken == take_share(pool.list, ShareIndex)
    IN /\ pool.made
       /\ Len(pool.results) < pool.count + MaxExtra
       /\ pool' = [pool EXCEPT
                     !.list = taken.list,
                     !.results = Append(@, IF taken.ok
                                           THEN [ok |-> TRUE, id |-> taken.share.id]
                                           ELSE [ok |-> FALSE, err |-> taken.err])]
       /\ UNCHANGED <<rng, keyFile, sigFile, kg, ss, origin, vr>>

SpecPool == InitPool /\ [][TakeOne]_vars


\* The stored signature is replaced by one of another length: cut short by
\* a byte, longer by a byte, or empty.
Resize ==
    /\ Quiet
    /\ sigFile.exists
    /\ Len(sigFile.bytes) = SigLen
    /\ \E bytes \in {SubSeq(sigFile.bytes, 1, SigLen - 1),
                     Append(sigFile.bytes, 0), <<>>} :
          sigFile' = [sigFile EXCEPT !.bytes = bytes]
    /\ origin' = [written |-> FALSE]
    /\ UNCHANGED <<pool, rng, keyFile, kg, ss, vr>>

NextStored ==
    \/ generate_keys
    \/ \E m \in Messages, t \in 1..MaxN : \E kf \in KeyFileAsWritten :
          LoadKeys("A", m, t, MaxN, kf)
    \/ sign_message("A")
    \/ \E m \in Messages : validate_signature(m)
    \/ Resize

SpecStored == Init /\ [][NextStored]_vars


\* The Verify command of the command line: it prints the message and the
\* name of the signature file, and main returns Ok(()).
Commands_Verify(message) ==
    /\ Quiet
    /\ vr' = [ran |-> TRUE, cli |-> TRUE, message |-> message, origin |-> origin,
              len |-> IF sigFile.exists THEN Len(sigFile.bytes) ELSE 0,
              ok |-> TRUE, err |-> "none"]
    /\ UNCHANGED <<pool, rng, keyFile, sigFile, kg, ss, origin>>

NextCli ==
    \/ generate_keys
    \/ \E m \in Messages, t \in 1..MaxN : \E kf \in KeyFileAsWritten :
          LoadKeys("A", m, t, MaxN, kf)
    \/ sign_message("A")
    \/ \E m \in Messages : Commands_Verify(m)

SpecCli == Init /\ [][NextCli]_vars

\* Key files that list a participant's share twice: the generated key
\* material as it is, or with its first share repeated in front.
KeyFilesRepeated ==
    IF ~keyFile.exists THEN {NoFile}
    ELSE {keyFile,
          [keyFile EXCEPT !.private_shares = <<@[1]>> \o @]}

NextDup ==
    \/ generate_keys
    \/ \E m \in Messages, t \in 1..MaxN : \E kf \in KeyFilesRepeated :
          LoadKeys("A", m, t, MaxN, kf)
    \/ sign_message("A")

SpecDup == Init /\ [][NextDup]_vars

\* One signer's partial signature does not reach the aggregator.
Lose(s) ==
    /\ ss[s].pc = "signed"
    /\ ss[s].corrupted = {}
    /\ ss[s].lost = {}
    /\ \E i \in DOMAIN ss[s].aggregator.partial_signatures :
          Set(s, [ss[s] EXCEPT
                    !.lost = {i},
                    !.aggregator.partial_signatures =
                        [j \in (DOMAIN @) \ {i} |-> @[j]]])
    /\ UNCHANGED <<pool, rng, keyFile, sigFile, kg, origin, vr>>

NextPartial ==
    \/ generate_keys
    \/ \E m \in Messages, t \in 1..MaxN, kf \in KeyFiles :
          LoadKeys("A", m, t, MaxN, kf)
    \/ sign_message("A")
    \/ Corrupt("A")
    \/ Lose("A")

SpecPartial == Init /\ [][NextPartial]_vars

\* sign_message is called twice, the second call after the first has
\* returned and with a partial signature that may be altered or lost, and
\* validate_signature is called between and after them.
NextFrame ==
    \/ generate_keys
    \/ \E m \in Messages, t \in 1..MaxN : \E kf \in KeyFileAsWritten :
          LoadKeys("A", m, t, MaxN, kf)
    \/ \E m \in Messages, t \in 1..MaxN : \E kf \in KeyFileAsWritten :
          /\ ss["A"].pc \in {"done", "failed", "panicked"}
          /\ LoadKeys("B", m, t, MaxN, kf)
    \/ \E s \in Sessions : sign_message(s)
    \/ Corrupt("B")
    \/ Lose("B")
    \/ \E m \in Messages : validate_signature(m)

SpecFrame == Init /\ [][NextFrame]_vars

(* ----------------------- faults in key generation --------------------- *)
\* A key file left by an earlier run.
OldKeyFile == [exists |-> TRUE, group_key |-> to_bytes(1), private_shares |-> <<>>]

\* The participants whose proof of secret key does not verify.
BadProofs ==
    {k \in 1..Len(kg.participants) :
        ~NizkVerify(kg.participants[k].proof_of_secret_key,
                    kg.participants[k].index,
                    public_key(kg.participants[k]))}

Min(S) == CHOOSE x \in S : \A y \in S : x <= y

\* Some participants come with a proof of secret key that is not theirs:
\* before step 2 checks the proofs, or after it and before round one.
BadProof(at) ==
    /\ kg.pc = at
    /\ kg.i = 0
    /\ kg.fault = "none"
    /\ \E B \in (SUBSET (1..Len(kg.participants))) \ {{}} :
       \E delta \in 1..(Q - 1) :
          kg' = [kg EXCEPT
                   !.fault = at,
                   !.participants =
                      [k \in 1..Len(@) |->
                          IF k \in B
                          THEN [@[k] EXCEPT !.proof_of_secret_key.r = Add(@, delta)]
                          ELSE @[k]]]
    /\ UNCHANGED <<pool, rng, keyFile, sigFile, ss, origin, vr>>

\* One secret share is lost on its way to its recipient.
LostShare ==
    /\ kg.pc = "step4"
    /\ kg.i = 0
    /\ kg.fault = "none"
    /\ \E j \in 1..Len(kg.all_secret_shares) :
       \E k \in 1..Len(kg.all_secret_shares[j]) :
          kg' = [kg EXCEPT !.fault = "lost",
                           !.all_secret_shares[j] = RemoveAt(@, k)]
    /\ UNCHANGED <<pool, rng, keyFile, sigFile, ss, origin, vr>>

\* One secret share is altered on its way to its recipient.
BadShare ==
    /\ kg.pc = "step4"
    /\ kg.i = 0
    /\ kg.fault = "none"
    /\ \E j \in 1..Len(kg.all_secret_shares) :
       \E k \in 1..Len(kg.all_secret_shares[j]) :
       \E delta \in 1..(Q - 1) :
          kg' = [kg EXCEPT
                   !.fault = "altered",
                   !.all_secret_shares[j][k].polynomial_evaluation = Add(@, delta)]
    /\ UNCHANGED <<pool, rng, keyFile, sigFile, ss, origin, vr>>

InitFault ==
    /\ rng \in [seed : Seeds, ctr : {0}]
    /\ keyFile \in {NoFile, OldKeyFile}
    /\ sigFile = NoFile
    /\ kg = KgIdle
    /\ ss = [s \in Sessions |-> SsIdle]
    /\ origin = [written |-> FALSE]
    /\ vr = [ran |-> FALSE]
    /\ pool = NoPool

NextFault ==
    \/ generate_keys
    \/ BadProof("step2")
    \/ BadProof("step3")
    \/ LostShare
    \/ BadShare

SpecFault == InitFault /\ [][NextFault]_vars

\* Some participants leave round two holding an altered constant-term
\* commitment of another participant: d[j] is what is added to the first
\* commitment participant j holds.
BadCommitment ==
    /\ kg.pc = "step5"
    /\ kg.i = 0
    /\ kg.fault = "none"
    /\ kg.params.n >= 2
    /\ \E d \in [1..Len(kg.dkg_states_round_two) -> 0..(Q - 1)] :
          /\ \E j \in DOMAIN d : d[j] # 0
          /\ kg' = [kg EXCEPT
                     !.fault = "commitment",
                     !.dkg_states_round_two =
                         [j \in DOMAIN @ |->
                             [@[j] EXCEPT !.their_commitments[1][2][1] =
                                              Add(@, d[j])]]]
    /\ UNCHANGED <<pool, rng, keyFile, sigFile, ss, origin, vr>>

NextMismatch ==
    \/ generate_keys
    \/ BadCommitment

SpecMismatch == InitFault /\ [][NextMismatch]_vars

(* ------------------------------- claims ------------------------------- *)
Finished(s) == ss[s].pc \in {"done", "failed", "panicked"}

\* Call s of sign_message has loaded the generated key material.
HasKeys(s) == ss[s].pc # "idle" /\ ss[s].err # "File::open" /\ kg.pc = "done"

ValidFor(sig, group_key, message) ==
    verify(sig, group_key, compute_message_hash(SignContext, message))

\* C1: for every 1 <= t <= n key generation completes (it neither returns an
\* error nor aborts) and yields exactly n key shares, the i-th for
\* participant index i, and one group key; the group key every participant's
\* finish computes is that one.
C1_KeygenYieldsShares ==
    /\ kg.pc \notin {"failed", "panicked"}
    /\ kg.pc = "done" =>
          /\ keyFile.exists
          /\ Len(keyFile.private_shares) = kg.params.n
          /\ \A i \in 1..kg.params.n : keyFile.private_shares[i][2] = i
          /\ Len(kg.group_keys) = kg.params.n
          /\ \A i \in 1..kg.params.n :
                keyFile.group_key = GroupKey_to_bytes(kg.group_keys[i])

C1_Witness ==
    /\ kg.pc = "done"
    /\ kg.params.n = MaxN
    /\ kg.params.t = MaxN - 1
    /\ \E i, j \in 1..MaxN : keyFile.private_shares[i][1] # keyFile.private_shares[j][1]

\* C2: with keys generated for (t, n), a sign_message call with threshold t
\* on any ordering of the shares (so any t of them are the signers) does not
\* fail, and validating the signature it wrote with the same message
\* succeeds.
C2_SignThenVerify ==
    /\ \A s \in Sessions :
          (HasKeys(s) /\ ss[s].params.t = kg.params.t)
             => ss[s].pc \notin {"failed", "panicked"}
    /\ (/\ vr.ran
        /\ vr.origin.written
        /\ vr.message = vr.origin.message
        /\ Cardinality(vr.origin.signers) = kg.params.t) => vr.ok

C2_Witness ==
    /\ vr.ran /\ vr.ok
    /\ vr.message = vr.origin.message
    /\ kg.params.t = 2 /\ kg.params.n = MaxN
    /\ vr.origin.signers = {MaxN - 1, MaxN}

\* C3: a stored signature that is valid for the message m it was produced
\* for is rejected by validate_signature for every message other than m.
C3_OtherMessageRejected ==
    (/\ vr.ran
     /\ vr.origin.written
     /\ vr.message # vr.origin.message
     /\ vr.err \in {"none", "Signature verification failed"}
     /\ ValidFor(vr.threshold_signature, vr.group_key, vr.origin.message))
        => (~vr.ok /\ vr.err = "Signature verification failed")

C3_Witness ==
    /\ vr.ran /\ ~vr.ok
    /\ vr.origin.written
    /\ vr.message # vr.origin.message
    /\ vr.err = "Signature verification failed"
    /\ ValidFor(vr.threshold_signature, vr.group_key, vr.origin.message)

\* C4: every signature a sign_message call writes out as its successful
\* result verifies against the group key for the signed message.
C4_WrittenSignatureVerifies ==
    \A s \in Sessions :
        ss[s].pc = "done"
          => verify(ss[s].threshold_signature, ss[s].group_key, ss[s].message_hash)

\* C5: with keys generated with threshold t >= 2, a sign_message call with a
\* threshold below t returns an error.
C5_BelowThresholdIsError ==
    \A s \in Sessions :
        (/\ HasKeys(s) /\ Finished(s)
         /\ kg.params.t >= 2
         /\ ss[s].params.t < kg.params.t) => ss[s].pc = "failed"

\* C6: a signing session with fewer registered signers than the threshold t
\* of the keys fails when its signer set is finalized: it never gets past
\* finalize, ends with the finalize error, and produces no signature.
C6_TooFewSignersStopAtFinalize ==
    \A s \in Sessions :
        (/\ HasKeys(s)
         /\ ss[s].pc \notin {"loaded", "committed", "registered", "signed"}
         /\ Cardinality(SignerIndices(ss[s].signers)) < kg.params.t)
          => (/\ ss[s].pc = "failed"
              /\ ss[s].err = "Failed to finalize aggregator"
              /\ ss[s].threshold_signature = <<>>)

\* C7: with keys generated for (t, n), a sign_message call with a threshold
\* t' with t <= t' <= n does not fail, and ends having written its signature
\* to the signature file.
C7_AtLeastThresholdSucceeds ==
    \A s \in Sessions :
        (/\ HasKeys(s)
         /\ kg.params.t <= ss[s].params.t
         /\ ss[s].params.t <= kg.params.n)
          => /\ ss[s].pc \notin {"failed", "panicked"}
             /\ ss[s].pc = "done" =>
                   /\ sigFile.exists
                   /\ sigFile.bytes =
                        ThresholdSignature_to_bytes(ss[s].threshold_signature)
                   /\ Len(sigFile.bytes) = SigLen

C7_Witness ==
    \E s \in Sessions :
        /\ HasKeys(s)
        /\ ss[s].pc = "done"
        /\ kg.params.t < ss[s].params.t
        /\ ss[s].params.t = kg.params.n
        /\ sigFile.exists

\* C8: under every interleaving of sign_message calls, no nonce-commitment
\* pair is dispensed to two calls or to two signers, and no pair is used for
\* a partial signature twice: the pairs a call uses are pairs dispensed to it,
\* each used once.
C8_NoncePairUsedOnce ==
    /\ \A s \in Sessions :
          /\ Cardinality(Range(ss[s].consumed)) = Len(ss[s].consumed)
          /\ Range(ss[s].consumed) \subseteq ss[s].dispensed
          /\ ss[s].pc \in {"committed", "registered", "signed", "aggregated", "done"}
                => Cardinality(ss[s].dispensed) = ShareListLen * ss[s].params.t
    /\ \A s1, s2 \in Sessions :
          s1 # s2 => ss[s1].dispensed \cap ss[s2].dispensed = {}

C8_Witness ==
    /\ \A s \in Sessions :
          /\ ss[s].pc = "signed"
          /\ Len(ss[s].consumed) >= 2
          /\ ss[s].secret_comshares[1][1] = 1
    /\ \E s1, s2 \in Sessions : ss[s1].consumed # ss[s2].consumed

PoolOks == {k \in 1..Len(pool.results) : pool.results[k].ok}

C10_CorruptedPartialNamed ==
    \A s \in Sessions :
        ss[s].corrupted # {} =>
            /\ ss[s].pc \in {"signed", "failed"}
            /\ ss[s].threshold_signature = <<>>
            /\ ~(origin.written /\ origin.by = s)
            /\ ss[s].pc = "failed" =>
                  /\ ss[s].err = "Failed to aggregate signature"
                  /\ ss[s].who = ss[s].corrupted

C10_Witness ==
    \E s \in Sessions :
        /\ ss[s].pc = "failed"
        /\ ss[s].corrupted = {2}
        /\ ss[s].who = {2}
        /\ Len(ss[s].signers) = MaxN

\* C11: after key generation no store holds the threshold number t of key
\* shares or more: whatever generate_keys has written holds fewer than t of
\* them, so the private key cannot be reconstructed from it.
C11_NoStoreHoldsThreshold ==
    (kg.pc = "done" /\ keyFile.exists)
        => Len(keyFile.private_shares) < kg.params.t

\* C12: when the proof of secret key of some participant does not verify,
\* key generation stops in step 2 with the proof error naming the
\* lowest-index such participant, and no DKG round state is created.
C12_ProofFailureAborts ==
    (kg.fault = "step2" /\ BadProofs # {}) =>
        /\ kg.pc \in {"step2", "failed"}
        /\ kg.dkg_states = <<>>
        /\ kg.all_secret_shares = <<>>
        /\ kg.pc = "step2" => kg.i < Min(BadProofs)
        /\ kg.pc = "failed" =>
              /\ kg.err = "Proof of secret key verification failed"
              /\ kg.who = kg.participants[Min(BadProofs)].index

C12_Witness ==
    /\ kg.fault = "step2"
    /\ kg.pc = "failed"
    /\ BadProofs = {2, 3}
    /\ kg.who = 2
    /\ kg.i = 1

\* C13: when a step of key generation fails for a participant (its proof,
\* its round-one state, its share count or its round two), generate_keys
\* goes no further and returns an error, and the key file is as it was
\* before the call: it is written only by a call that completes.
C13_AbortLeavesNoKeys ==
    /\ kg.pc # "done" => keyFile \in {NoFile, OldKeyFile}
    /\ kg.pc # "panicked"
    /\ kg.fault = "step2" => kg.pc \in {"step2", "failed"}
    /\ (kg.fault = "step3" /\ kg.params.n >= 2) => kg.pc \in {"step3", "failed"}
    /\ kg.fault = "lost" => kg.pc \in {"step4", "failed"}
    /\ kg.pc = "failed" =>
          /\ kg.err # "none"
          /\ kg.who \in 1..kg.params.n
          /\ kg.group_keys = <<>>
          /\ kg.private_shares = <<>>

C13_Witness ==
    /\ kg.pc = "failed"
    /\ kg.fault = "lost"
    /\ kg.err = "Round 2 failed"
    /\ keyFile = OldKeyFile

\* The secret keys generate_keys produced, in the order it produced them.
ProducedKeys ==
    [i \in 1..Len(kg.dkg_states_round_two) |->
        finish(kg.dkg_states_round_two[i], public_key(kg.participants[i])).secret_key]

\* C14: the group key and the list of (key share, participant index) pairs
\* that sign_message reconstructs from the key file generate_keys wrote are
\* those generate_keys produced, with the same pairing and in the same order.
C14_KeyMaterialRoundTrips ==
    \A s \in Sessions :
        HasKeys(s) =>
            /\ ss[s].err \notin {"Invalid group public key",
                                 "Invalid private key bytes"}
            /\ ss[s].group_key = kg.group_keys[1]
            /\ ss[s].secret_keys = ProducedKeys
            /\ Len(ss[s].secret_keys) = kg.params.n

C14_Witness ==
    \E s \in Sessions :
        /\ HasKeys(s)
        /\ ss[s].pc = "loaded"
        /\ Len(ss[s].secret_keys) = MaxN
        /\ \E i, j \in 1..MaxN : ss[s].secret_keys[i].key # ss[s].secret_keys[j].key
        /\ ss[s].group_key # ss[s].secret_keys[1].key

\* C15: the signature file sign_message writes is exactly 64 bytes, the
\* encoding of R followed by that of z; the signature validate_signature
\* decodes from it is the one sign_message aggregated; a stored signature of
\* any other length is rejected with the length error before anything is
\* decoded or verified.
C15_SignatureRoundTrips ==
    /\ (sigFile.exists /\ origin.written) =>
          /\ Len(sigFile.bytes) = SigLen
          /\ SubSeq(sigFile.bytes, 1, KeyLen)
                = to_bytes(ss[origin.by].threshold_signature.R)
          /\ SubSeq(sigFile.bytes, KeyLen + 1, SigLen)
                = to_bytes(ss[origin.by].threshold_signature.z)
    /\ (vr.ran /\ vr.origin.written) =>
          /\ vr.err \in {"none", "Signature verification failed"}
          /\ vr.threshold_signature = ss[vr.origin.by].threshold_signature
    /\ (vr.ran /\ vr.len # SigLen) =>
          /\ ~vr.ok
          /\ vr.err \in {"File::open", "Invalid length for threshold signature"}
          /\ "threshold_signature" \notin DOMAIN vr

C15_Witness ==
    /\ vr.ran /\ vr.ok
    /\ vr.origin.written
    /\ vr.len = SigLen
    /\ vr.threshold_signature.R # vr.threshold_signature.z
    /\ vr.threshold_signature.R # 0

C15_WitnessLength ==
    /\ vr.ran
    /\ vr.len = SigLen - 1
    /\ vr.err = "Invalid length for threshold signature"

\* C16: a signature produced by sign_message verifies for its message under
\* a context exactly when that context is the one it was signed under, and
\* validate_signature uses that same context, so it accepts the signature.
C16_SameContext ==
    (/\ vr.ran
     /\ vr.origin.written
     /\ vr.message = vr.origin.message
     /\ vr.err \in {"none", "Signature verification failed"}
     /\ ValidFor(vr.threshold_signature, vr.group_key, vr.origin.message))
        => /\ \A c \in {SignContext, VerifyContext, OtherContext, SigningContext} :
                verify(vr.threshold_signature, vr.group_key,
                       compute_message_hash(c, vr.origin.message))
                   <=> c = ss[vr.origin.by].message_hash[1]
           /\ ss[vr.origin.by].message_hash[1] = VerifyContext
           /\ vr.ok

C16_Witness ==
    /\ vr.ran /\ vr.ok
    /\ vr.origin.written
    /\ vr.message = vr.origin.message
    /\ ss[vr.origin.by].message_hash[1] = VerifyContext
    /\ ~verify(vr.threshold_signature, vr.group_key,
               compute_message_hash(OtherContext, vr.origin.message))

\* C17: the Verify command completes successfully only if the signature file
\* it is given holds a signature that is valid for the given message under
\* the group key.
C17_VerifyCommandVerifies ==
    (vr.ran /\ "cli" \in DOMAIN vr /\ vr.ok) =>
        /\ vr.origin.written
        /\ ValidFor(ss[vr.origin.by].threshold_signature,
                    ss[vr.origin.by].group_key, vr.message)

\* C18: for every message, every t and n and every well-formed key file,
\* whatever number of shares it holds, a sign_message call ends by returning
\* Ok or Err and never by aborting the process.
C18_SignNeverAborts ==
    \A s \in Sessions : ss[s].pc # "panicked"

\* C19: a signing session that registers a signer index already registered
\* fails at that registration with DuplicateSigner: it goes no further.
C19_DuplicateSignerRejected ==
    \A s \in Sessions :
        (/\ ss[s].pc \notin {"idle", "loaded", "committed"}
         /\ \E i, j \in 1..Len(ss[s].public_comshares) :
               /\ i < j
               /\ ss[s].public_comshares[i][1] = ss[s].public_comshares[j][1])
          => (/\ ss[s].pc = "failed"
              /\ ss[s].err = "DuplicateSigner")

\* C20: in round two every participant i receives exactly n - 1 shares, one
\* from each other participant j in index order, each the evaluation of j's
\* polynomial at i's index; the share count check never fails.
C20_SharesRouted ==
    /\ kg.err # "received incorrect number of shares"
    /\ \A i \in 1..Len(kg.dkg_states_round_two) :
          LET got == kg.dkg_states_round_two[i].my_secret_shares
          IN /\ Len(got) = kg.params.n - 1
             /\ \A k \in 1..Len(got) :
                   got[k] = evaluate_polynomial(
                                kg.participants[i].index,
                                kg.coefficients[IF k < i THEN k ELSE k + 1])

C20_Witness ==
    /\ kg.pc = "step5"
    /\ kg.params.n = MaxN
    /\ kg.params.t >= 2
    /\ Len(kg.dkg_states_round_two) = MaxN
    /\ \A i \in {1, MaxN} :
          \E j, k \in 1..(MaxN - 1) :
              kg.dkg_states_round_two[i].my_secret_shares[j].polynomial_evaluation
                # kg.dkg_states_round_two[i].my_secret_shares[k].polynomial_evaluation

\* The members of a set of indices in ascending order.
Ascending(S) ==
    CHOOSE f \in [1..Cardinality(S) -> S] :
        \A a, b \in 1..Cardinality(S) : a < b => f[a] < f[b]

\* The secret that the stored shares of the participants in S combine to.
Combined(S) ==
    LET all == Ascending(S)
    IN SumSeq([k \in 1..Len(all) |->
          Mul(calculate_lagrange_coefficients(all[k], all).val,
              from_bytes(kg.private_shares[all[k]][1]).val)])

\* C21: the secret key finish gives participant i is the sum over all n
\* participants j of j's polynomial evaluated at i, the group key it gives is
\* the sum of the n constant-term commitments, and the shares of any t
\* participants combine, with their Lagrange coefficients, to a secret whose
\* public key is the group key.
C21_FinishSums ==
    /\ \A i \in 1..Len(kg.group_keys) :
          /\ from_bytes(kg.private_shares[i][1]).val =
                SumSeq([j \in 1..kg.params.n |->
                    evaluate_polynomial(kg.participants[i].index,
                                        kg.coefficients[j]).polynomial_evaluation])
          /\ kg.private_shares[i][2] = kg.participants[i].index
          /\ kg.group_keys[i] =
                SumSeq([j \in 1..kg.params.n |-> kg.participants[j].commitments[1]])
    /\ kg.pc = "done" =>
          \A S \in SUBSET (1..kg.params.n) :
              Cardinality(S) = kg.params.t
                 => BasepointMul(Combined(S)) = kg.group_keys[1]

C21_Witness ==
    /\ kg.pc = "done"
    /\ kg.params.n = MaxN
    /\ kg.params.t = 2
    /\ Combined({1, MaxN}) # 0
    /\ from_bytes(kg.private_shares[1][1]).val
          # from_bytes(kg.private_shares[MaxN][1]).val

\* How far participant k has got in a generate_keys call whose locals are g:
\* 0 not created, 1 created (round one generated), 2 proof verified,
\* 3 round-one state and shares computed, 4 round two done (shares
\* verified), 5 finished.
PhaseOf(g, k) ==
    IF k <= Len(g.group_keys) THEN 5
    ELSE IF k <= Len(g.dkg_states_round_two) THEN 4
    ELSE IF k <= Len(g.dkg_states) THEN 3
    ELSE IF k <= g.verified THEN 2
    ELSE IF k <= Len(g.participants) THEN 1
    ELSE 0

\* C22: every participant goes through the phases of key generation in
\* order, one at a time and never back; a call that has completed or failed
\* does nothing more; and no participant is in a phase past proof
\* verification before every participant has completed the phase before it.
C22_DkgPhasesInOrder ==
    [][/\ \A k \in 1..MaxN :
             \/ PhaseOf(kg', k) = PhaseOf(kg, k)
             \/ PhaseOf(kg', k) = PhaseOf(kg, k) + 1
       /\ kg.pc \in {"done", "failed"} => kg' = kg
       /\ \A k, l \in 1..Len(kg'.participants) :
             PhaseOf(kg', k) >= 3 => PhaseOf(kg', l) >= PhaseOf(kg', k) - 1
       /\ \A k \in 1..Len(kg'.participants) :
             PhaseOf(kg', k) >= 3 => kg'.verified = Len(kg'.participants)]_vars

C22_Witness ==
    /\ kg.pc = "step4"
    /\ kg.params.n = MaxN
    /\ PhaseOf(kg, 1) = 4
    /\ PhaseOf(kg, MaxN) = 3

C22_WitnessAborted ==
    /\ kg.pc = "failed"
    /\ PhaseOf(kg, 1) = 3
    /\ PhaseOf(kg, 2) = 2

\* The steps a sign_message call may take from one position to the next.
SessionOrder ==
    {<<"idle", "loaded">>, <<"idle", "failed">>,
     <<"loaded", "committed">>, <<"loaded", "panicked">>,
     <<"committed", "registered">>,
     <<"registered", "signed">>, <<"registered", "failed">>,
     <<"signed", "aggregated">>, <<"signed", "failed">>,
     <<"aggregated", "done">>}

\* The partial signature of signer i held by the aggregator of session sess
\* satisfies the equation of its signer over the signer set sess.signers.
PartialValid(sess, i) ==
    LET bf == compute_binding_factors_and_group_commitment(
                  sess.message_hash, sess.signers)
        c == compute_challenge(sess.message_hash, sess.group_key,
                               SumOver(bf.Rs, DOMAIN bf.Rs))
        all == [k \in 1..Len(sess.signers) |-> sess.signers[k].participant_index]
    IN BasepointMul(sess.aggregator.partial_signatures[i])
         = Add(bf.Rs[i],
               Mul(sess.aggregator.public_keys[i],
                   Mul(c, calculate_lagrange_coefficients(i, all).val)))

\* The partial signature of the k-th secret key of session sess, computed
\* with the nonce pair it consumed over the signer set sess.signers.
PartialOver(sess, k) ==
    LET bf == compute_binding_factors_and_group_commitment(
                  sess.message_hash, sess.signers)
        c == compute_challenge(sess.message_hash, sess.group_key,
                               SumOver(bf.Rs, DOMAIN bf.Rs))
        all == [j \in 1..Len(sess.signers) |-> sess.signers[j].participant_index]
        key == sess.secret_keys[k]
    IN Add(Add(Rand(rng.seed, sess.consumed[k]),
               Mul(Rand(rng.seed, sess.consumed[k] + 1),
                   bf.binding_factors[key.index])),
           Mul(Mul(calculate_lagrange_coefficients(key.index, all).val, key.key), c))

\* C23: a sign_message call goes through registering the signers, obtaining
\* the signer set, collecting the partial signatures and aggregating, in
\* this order: the signer set does not change once obtained, every partial
\* signature is computed over that set, none is included before the set is
\* obtained, and aggregation comes after all of them are included.
C23_SigningInOrder ==
    [][\A s \in Sessions :
          /\ ss'[s].pc # ss[s].pc => <<ss[s].pc, ss'[s].pc>> \in SessionOrder
          /\ ss[s].pc \in {"registered", "signed", "aggregated", "done"} =>
                /\ ss'[s].signers = ss[s].signers
                /\ ss'[s].aggregator.signers = ss[s].signers
          /\ ss'[s].pc \in {"idle", "loaded", "committed"} =>
                ss'[s].aggregator = <<>>
          /\ ss'[s].pc = "registered" =>
                ss'[s].aggregator.partial_signatures = <<>>
          /\ ss'[s].pc \in {"signed", "aggregated", "done"} =>
                /\ DOMAIN ss'[s].aggregator.partial_signatures
                      = SignerIndices(ss'[s].signers)
                /\ \A k \in 1..Len(ss'[s].consumed) :
                      \E j \in k..Len(ss'[s].consumed) :
                          /\ ss'[s].secret_keys[j].index = ss'[s].secret_keys[k].index
                          /\ ss'[s].aggregator.partial_signatures[
                                 ss'[s].secret_keys[k].index]
                               = PartialOver(ss'[s], j)]_vars

C23_Witness ==
    /\ ss["A"].pc = "aggregated"
    /\ ss["B"].pc = "registered"
    /\ Len(ss["A"].signers) = MaxN
    /\ Len(ss["B"].signers) >= 2

\* C24: a sign_message call has a threshold signature only if the
\* aggregator holds a partial signature of every member of the signer set,
\* each valid for its signer, and then z is the sum of exactly those
\* partial signatures; when one is missing or invalid there is no signature.
C24_AggregateConditions ==
    \A s \in Sessions :
        /\ ss[s].pc \in {"aggregated", "done"} =>
              /\ DOMAIN ss[s].aggregator.partial_signatures
                    = SignerIndices(ss[s].signers)
              /\ \A i \in SignerIndices(ss[s].signers) : PartialValid(ss[s], i)
              /\ ss[s].threshold_signature.z =
                    SumOver(ss[s].aggregator.partial_signatures,
                            SignerIndices(ss[s].signers))
        /\ (ss[s].corrupted # {} \/ ss[s].lost # {}) =>
              /\ ss[s].pc \in {"signed", "failed"}
              /\ ss[s].threshold_signature = <<>>
        /\ (ss[s].pc = "failed" /\ ss[s].lost # {}) => ss[s].who = ss[s].lost

C24_Witness ==
    \E s \in Sessions :
        /\ ss[s].pc = "aggregated"
        /\ Len(ss[s].signers) = MaxN
        /\ \E i, j \in SignerIndices(ss[s].signers) :
              ss[s].aggregator.partial_signatures[i]
                 # ss[s].aggregator.partial_signatures[j]
        /\ ss[s].threshold_signature.z # 0

C24_WitnessMissing ==
    \E s \in Sessions :
        /\ ss[s].pc = "failed"
        /\ ss[s].lost = {1}
        /\ ss[s].err = "Failed to finalize aggregator"


\* C25: in every signing session that has started computing partial
\* signatures, the signer set is in ascending order of participant index,
\* holds no index twice, has exactly t members, and is the set the
\* aggregator keeps.
C25_SignerSetExact ==
    \A s \in Sessions :
        ss[s].pc \in {"signed", "aggregated", "done"} =>
            /\ \A i, j \in 1..Len(ss[s].signers) :
                  i < j => ss[s].signers[i].participant_index
                              < ss[s].signers[j].participant_index
            /\ Len(ss[s].signers) = ss[s].params.t
            /\ ss[s].aggregator.signers = ss[s].signers

\* C26: round 2 is run only for participants that received n - 1 shares;
\* the first participant whose count differs ends key generation with a
\* share-count error carrying that participant's index, the expected count
\* n - 1 and the actual count, and round 2 is run neither for that
\* participant nor for a later one.
C26_ShareCountMismatch ==
    LET Count(i) == Len(SharesFor(kg.all_secret_shares, i, 0))
        done == Len(kg.dkg_states_round_two)
    IN /\ \A i \in 0..(done - 1) : Count(i) = kg.params.n - 1
       /\ (kg.pc = "step4" /\ kg.i < Len(kg.dkg_states)) => done = kg.i
       /\ kg.err = "received incorrect number of shares" =>
             /\ kg.pc = "failed"
             /\ done < Len(kg.participants)
             /\ kg.who = kg.participants[done + 1].index
             /\ kg.expected = kg.params.n - 1
             /\ kg.got = Count(done)
             /\ kg.got # kg.expected
             /\ kg.group_keys = <<>>

\* C26 is exercised: a participant was short of a share and key generation
\* failed naming it, after round 2 had run for an earlier participant.
C26_Witness ==
    /\ kg.err = "received incorrect number of shares"
    /\ kg.fault = "lost"
    /\ kg.got = kg.params.n - 2
    /\ Len(kg.dkg_states_round_two) > 0

\* The group key each participant computes at the end of the DKG.
ComputedGroupKeys ==
    [i \in 1..Len(kg.dkg_states_round_two) |->
        finish(kg.dkg_states_round_two[i], public_key(kg.participants[i])).group_key]

\* C27: key material is written only when the group keys of all n
\* participants equal the stored one; when any two participants' group keys
\* differ, adjacent or not, key generation stops at the comparison and the
\* key file is as it was before the call.
C27_GroupKeysAgree ==
    /\ kg.pc = "done" =>
          /\ keyFile.exists
          /\ Len(kg.group_keys) = kg.params.n
          /\ \A i \in 1..kg.params.n :
                /\ kg.group_keys[i] = ComputedGroupKeys[i]
                /\ to_bytes(kg.group_keys[i]) = keyFile.group_key
    /\ kg.pc # "done" => keyFile \in {NoFile, OldKeyFile}
    /\ (\E i, j \in DOMAIN kg.group_keys : kg.group_keys[i] # kg.group_keys[j]) =>
          kg.pc = "panicked"
    /\ (/\ kg.pc \in {"step5", "save", "done", "panicked"}
        /\ \E i, j \in DOMAIN ComputedGroupKeys :
              ComputedGroupKeys[i] # ComputedGroupKeys[j]) =>
          kg.pc \in {"step5", "panicked"}

\* C27 is exercised: the first and the last of three participants computed
\* different group keys and key generation stopped at the comparison.
C27_Witness ==
    /\ kg.pc = "panicked"
    /\ kg.params.n = 3
    /\ ComputedGroupKeys[1] # ComputedGroupKeys[3]
    /\ keyFile = OldKeyFile

\* C27 is exercised: the first and the last of three participants computed
\* the same group key, the second a different one.
C27_WitnessApart ==
    /\ kg.pc = "panicked"
    /\ kg.params.n = 3
    /\ ComputedGroupKeys[1] = ComputedGroupKeys[3]
    /\ ComputedGroupKeys[1] # ComputedGroupKeys[2]

\* C28: in a sign_message call with t no larger than the number of shares in
\* the key file, exactly the first t shares produce a partial signature; the
\* k-th one is computed with the k-th secret key and the nonce pair of the
\* k-th list, the list generated and published for that key's participant
\* index; and the participants that signed are those registered with the
\* aggregator.
C28_KeyAndNoncesPaired ==
    \A s \in Sessions :
        ss[s].pc \in {"signed", "aggregated", "done"} =>
            LET t == ss[s].params.t
                keys == ss[s].secret_keys
                FirstId == Min(ss[s].dispensed)
            IN /\ t <= Len(keys)
               /\ Len(ss[s].consumed) = t
               /\ Len(ss[s].public_comshares) = t
               /\ Len(ss[s].secret_comshares) = t
               /\ \A k \in 1..t :
                     /\ ss[s].public_comshares[k][1] = keys[k].index
                     /\ ss[s].secret_comshares[k][1] = keys[k].index
                     /\ ss[s].public_comshares[k][2].participant_index = keys[k].index
                     /\ ss[s].consumed[k] = FirstId + 2 * ShareListLen * (k - 1)
                     /\ ss[s].public_comshares[k][2].commitments[ShareIndex + 1] =
                           <<BasepointMul(Rand(rng.seed, ss[s].consumed[k])),
                             BasepointMul(Rand(rng.seed, ss[s].consumed[k] + 1))>>
                     /\ \E j \in k..t :
                           /\ keys[j].index = keys[k].index
                           /\ ss[s].aggregator.partial_signatures[keys[k].index]
                                = PartialOver(ss[s], j)
               /\ {keys[k].index : k \in 1..t} = SignerIndices(ss[s].aggregator.signers)
               /\ DOMAIN ss[s].aggregator.partial_signatures =
                     {keys[k].index : k \in 1..t}

\* C28 is exercised: a call signed with fewer signers than the key file has
\* shares, and more than one.
C28_Witness ==
    \E s \in Sessions :
        /\ ss[s].pc = "done"
        /\ ss[s].params.t = 2
        /\ Len(ss[s].secret_keys) = 3
        /\ Len(ss[s].consumed) = 2

C29_WitnessValidated ==
    /\ vr.ran
    /\ vr.ok
    /\ keyFile.exists
    /\ sigFile.exists
=============================================================================
